---- MODULE Spec2Model ----
(***************************************************************************)
(* A model of the DALI physical-layer codec of src/_dali.py: the receiver  *)
(* (class rx: edge callback, Manchester decode step, watchdog-terminated   *)
(* frames) and the transmitter (class tx: pulse templates, wave chains,    *)
(* blocking send).  The pigpio backend is modelled only through the calls  *)
(* the two classes make on it.                                             *)
(*                                                                         *)
(* Four environments drive the same handlers:                              *)
(*   Spec          the receiver under arbitrary edge events and silences   *)
(*   SpecLoop      the transmitter playing chains onto the bus the         *)
(*                 receiver listens to (FairSpecLoop adds the fairness of  *)
(*                 the polling loop of tx.send)                            *)
(*   SpecDecode    the decode step applied to one pair of durations        *)
(*   SpecExit      the receiver, the transmitter and the caller releasing  *)
(*                 the connection they share                               *)
(***************************************************************************)
EXTENDS Integers, Sequences, FiniteSets, TLC

VARIABLES
  rx,        \* the rx object (self): its attributes
  wdog,      \* backend: watchdog of the RX pin in ms, 0 = none pending
  silences,  \* environment: silence periods elapsed since the last edge
  cb_n,      \* observation: number of invocations of the user callback
  cb_frame,  \* observation: argument of the latest invocation
  action,    \* observation: local `action` of the latest _decode call
  err,       \* observation: a timing error happened in the frame the latest
             \* edge belongs to
  fresh,     \* Spec: a second rx object, fed the same edges as rx and
             \* replaced by a newly constructed one at every delivery (which
             \* keeps, in frame, what the replaced one delivered)
  probe,     \* SpecDecode: the inputs handed to the decode step
  tx,        \* the tx object (self): its attributes
  waves,     \* backend: the waveforms created, wave id i at index i + 1
  tx_pc,     \* where the caller of tx.send is: "ready", "wait" (in the
             \* polling loop), "returned" or "raised"
  call,      \* the arguments of the latest call of tx.send
  chains,    \* observation: the chains that call handed to wave_chain
  polled,    \* observation: that call has read wave_tx_busy
  txq,       \* backend: the pulses of the chain still to be played
  bus,       \* the level of the bus
  idle,      \* microseconds since the latest edge on the bus, up to SilentUs
  now,       \* backend: the current tick
  clean,     \* observation: the latest call of tx.send found the bus high,
             \* the receiver reset and no watchdog pending
  reported,  \* observation: the level of the latest call of _cbe
  cb_at,     \* observation: _edges and _code of the receiver at the moment
             \* of the latest invocation of the user callback
  pi,        \* backend: the pigpio.pi connection the objects share
  teardown   \* observation: the calls of rx.cancel made and what they and
             \* tx.cancel issued on the connection

rxvars == <<rx, wdog, cb_n, cb_frame, action, err, fresh>>
txvars == <<tx, waves, tx_pc, call, chains, polled, txq, clean>>
busvars == <<bus, idle, now>>
obsvars == <<reported, cb_at>>
pivars == <<pi, teardown>>
vars == <<rxvars, txvars, busvars, silences, probe, obsvars, pivars>>

----------------------------------------------------------------------------
(* Bounds of the model.                                                    *)

\* edges accepted per frame
MaxEdges == 8
\* frames delivered per run
MaxFrames == 2
\* consecutive silence periods without an edge
MaxSilences == 2
\* the tick counter wraps after TickQuanta steps of TickStep microseconds
\* (pigpio wraps at 2^32 microseconds)
TickQuanta == 16
\* largest duration handed to the decode step in SpecDecode
MaxDuration == 1000
\* largest shift-register value the decode step starts from in SpecDecode
MaxRegister == 3
\* largest bit count handed to tx.send; codes have up to MaxBits + 1 bits
MaxBits == 4
\* largest repeat count handed to tx.send
MaxRepeats == 2
\* calls of rx.cancel per run
MaxCancels == 2
\* edges of a frame accepted while the program is being shut down
MaxExitEdges == 4

----------------------------------------------------------------------------
(* class rx: timing constants.                                             *)

TE      == 417
MIN_TE  == 350
MAX_TE  == 490
MIN_2TE == 760
MAX_2TE == 900
STP_2TE == 1800

\* dali.py, dali_monitor.py: the receiver's pin
RX == 23
\* rx.__init__: the default of glitch
GLITCH_DEFAULT == 150

\* value of an attribute __init__ does not assign (_prev, frame)
Unset == -1
\* Python's None
None == "None"
\* pigpio.TIMEOUT, the level of a watchdog callback
TIMEOUT == 2

TickStep == TE \div 3
TickWrap == TickQuanta * TickStep

\* pigpio.tickDiff(t1, t2): t2 - t1, corrected for one wrap of the counter
tickDiff(t1, t2) == IF t2 - t1 < 0 THEN t2 - t1 + TickWrap ELSE t2 - t1

\* round(STP_2TE/1000.0)
WdogMs == (2 * STP_2TE + 1000) \div 2000

\* the shortest silence, in whole tick steps, that lets the watchdog expire
SilentUs == ((WdogMs * 1000 + TickStep - 1) \div TickStep) * TickStep

\* gaps between two edges: too short, TE, 2TE, too long
Gaps == {2 * TickStep, 3 * TickStep, 6 * TickStep, 8 * TickStep}

----------------------------------------------------------------------------
(* class rx.                                                               *)

\* rx.__init__, tick being what get_current_tick returns; _cb is the handle
\* pi.callback returns
RxNew(gpio, callback, glitch, tick) ==
  [ gpio |-> gpio, cb |-> callback, glitch |-> glitch,
    _in_code |-> 0, _edges |-> 0, _code |-> 0,
    _prev_edge_len |-> 0, _prev |-> Unset, frame |-> Unset,
    _last_edge_tick |-> tick, _cb |-> "callback" ]

\* the pigpio.pi connection after rx.__init__ on it: connected, the glitch
\* filter of the pin set, _cbe registered for the pin's edges, no wave deleted
PiNew(gpio, glitch) ==
  [ connected |-> TRUE, glitch |-> glitch, callbacks |-> {gpio},
    deleted |-> {} ]

\* pi.stop()
PiStopped(conn) == [conn EXCEPT !.connected = FALSE]

\* rx.cancel on connection conn, the pin's watchdog being wd: the object, the
\* connection and the watchdog afterwards, and the backend operations issued.
\* What an operation on a stopped connection does is the backend's to say:
\* it raises (fails) or it returns with no effect.
rx_cancel(self, conn, wd, fails) ==
  IF self._cb = None
  THEN [self |-> self, pi |-> conn, wdog |-> wd, ops |-> <<>>,
        raised |-> FALSE]
  ELSE IF ~conn.connected /\ fails
  THEN [self |-> self, pi |-> conn, wdog |-> wd,
        ops |-> <<"set_glitch_filter">>, raised |-> TRUE]
  ELSE [self |-> [self EXCEPT !._cb = None],
        pi |-> IF conn.connected
               THEN PiStopped([conn EXCEPT !.glitch = 0,
                                           !.callbacks = @ \ {self.gpio}])
               ELSE conn,
        wdog |-> IF conn.connected THEN 0 ELSE wd,
        ops |-> <<"set_glitch_filter", "set_watchdog", "cancel", "stop">>,
        raised |-> FALSE]

\* the two comparisons of _decode on a duration
IsLong(t)  == t > MIN_2TE /\ t < MAX_2TE
IsShort(t) == t > MIN_TE /\ t < MAX_TE

\* Classify with the lower comparisons written >=
Classify_inclusive(t) ==
  IF t >= MIN_2TE /\ t < MAX_2TE THEN "Long"
  ELSE IF t >= MIN_TE /\ t < MAX_TE THEN "Short" ELSE "Invalid"

\* if long ... elif not short: error
Classify(t) ==
  IF IsLong(t) THEN "Long" ELSE IF IsShort(t) THEN "Short" ELSE "Invalid"

\* DecodeAction with the two duration bits exchanged
DecodeAction_swapped(prev, high_time, low_time) ==
  prev * 4 + (IF IsLong(high_time) THEN 2 ELSE 0)
           + (IF IsLong(low_time) THEN 1 ELSE 0)

\* the local `action` of _decode after both durations are looked at;
\* the low bits of prev << 2 are clear, so | 1 and | 2 add
DecodeAction(prev, high_time, low_time) ==
  LET a0 == prev * 4
      a1 == IF Classify(high_time) = "Long" THEN a0 + 1 ELSE a0
  IN  IF Classify(low_time) = "Long" THEN a1 + 2 ELSE a1

\* whether a _decode call runs one of its `self._in_code = 0` error branches
DecodeError(prev, high_time, low_time) ==
  \/ Classify(high_time) = "Invalid"
  \/ Classify(low_time) = "Invalid"
  \/ DecodeAction(prev, high_time, low_time) \in {1, 3, 6}

\* _decode giving up the frame on a timing error
_decode_abort(self, high_time, low_time) ==
  LET act == DecodeAction(self._prev, high_time, low_time)
      s2  == [self EXCEPT !._code = self._code * 2]
  IN  IF DecodeError(self._prev, high_time, low_time)
      THEN [self EXCEPT !._in_code = 0, !._code = 0, !._edges = 0]
      ELSE IF act \in {2, 7}
           THEN [s2 EXCEPT !._code = s2._code * 2 + 1, !._prev = 1]
      ELSE IF act = 4
           THEN [s2 EXCEPT !._code = s2._code + 1, !._prev = 1]
      ELSE [s2 EXCEPT !._prev = 0]

\* rx._decode
_decode(self, high_time, low_time) ==
  LET act == DecodeAction(self._prev, high_time, low_time)
      s1  == IF DecodeError(self._prev, high_time, low_time)
             THEN [self EXCEPT !._in_code = 0] ELSE self
      s2  == [s1 EXCEPT !._code = s1._code * 2]
  IN  IF act \in {1, 3, 6} THEN s2
      ELSE IF act \in {2, 7}
           THEN [s2 EXCEPT !._code = s2._code * 2 + 1, !._prev = 1]
      ELSE IF act = 4
           THEN [s2 EXCEPT !._code = s2._code + 1, !._prev = 1]
      ELSE [s2 EXCEPT !._prev = 0]

\* _stop without `self._code = 0`
_stop_keeps_code(self) ==
  LET s == [self EXCEPT !.frame = self._code, !._edges = 0]
  IN  [self |-> s, cb |-> IF s.cb THEN <<s.frame>> ELSE <<>>,
       seen |-> IF s.cb THEN <<s>> ELSE <<>>]

\* _stop with the callback invoked before the two resets
_stop_deliver_first(self) ==
  LET s1 == [self EXCEPT !.frame = self._code]
      s  == [s1 EXCEPT !._edges = 0, !._code = 0]
  IN  [self |-> s, cb |-> IF s.cb THEN <<s1.frame>> ELSE <<>>,
       seen |-> IF s.cb THEN <<s1>> ELSE <<>>]

\* rx._stop: the object afterwards, the frames handed to the callback, and
\* the object as it is when the callback is invoked (the last statement)
_stop(self) ==
  LET s1 == [self EXCEPT !.frame = self._code]
      s2 == [s1 EXCEPT !._edges = 0]
      s  == [s2 EXCEPT !._code = 0]
  IN  [self |-> s, cb |-> IF s.cb THEN <<s.frame>> ELSE <<>>,
       seen |-> IF s.cb THEN <<s>> ELSE <<>>]

\* _cbe without the leading `self._wdog(0)`: a timeout leaves the watchdog set
_cbe_keeps_wdog(self, level, tick) ==
  IF level < 2
  THEN LET edge_len == tickDiff(self._last_edge_tick, tick)
           s1 == [self EXCEPT !._last_edge_tick = tick]
           s2 == IF s1._edges < 2
                 THEN [s1 EXCEPT !._prev = 1]
                 ELSE IF s1._edges % 2 = 1
                      THEN _decode(s1, s1._prev_edge_len, edge_len)
                      ELSE [s1 EXCEPT !._prev_edge_len = edge_len]
       IN  [self |-> [s2 EXCEPT !._edges = s2._edges + 1],
            wdog |-> WdogMs, cb |-> <<>>, seen |-> <<>>]
  ELSE LET r == _stop(self)
       IN  [self |-> r.self, wdog |-> WdogMs, cb |-> r.cb, seen |-> r.seen]

\* _cbe telling a rising edge by the level reported
_cbe_trusts_level(self, level, tick) ==
  IF level < 2
  THEN LET edge_len == tickDiff(self._last_edge_tick, tick)
           s1 == [self EXCEPT !._last_edge_tick = tick]
           s2 == IF s1._edges < 2
                 THEN [s1 EXCEPT !._prev = 1]
                 ELSE IF level = 1
                      THEN _decode(s1, s1._prev_edge_len, edge_len)
                      ELSE [s1 EXCEPT !._prev_edge_len = edge_len]
       IN  [self |-> [s2 EXCEPT !._edges = s2._edges + 1],
            wdog |-> WdogMs, cb |-> <<>>, seen |-> <<>>]
  ELSE LET r == _stop(self)
       IN  [self |-> r.self, wdog |-> 0, cb |-> r.cb, seen |-> r.seen]

\* _cbe setting the watchdog on the first edge of a frame only
_cbe_arms_once(self, level, tick) ==
  IF level < 2
  THEN LET edge_len == tickDiff(self._last_edge_tick, tick)
           s1 == [self EXCEPT !._last_edge_tick = tick]
           s2 == IF s1._edges < 2
                 THEN [s1 EXCEPT !._prev = 1]
                 ELSE IF s1._edges % 2 = 1
                      THEN _decode(s1, s1._prev_edge_len, edge_len)
                      ELSE [s1 EXCEPT !._prev_edge_len = edge_len]
       IN  [self |-> [s2 EXCEPT !._edges = s2._edges + 1],
            wdog |-> IF self._edges = 0 THEN WdogMs ELSE 0,
            cb |-> <<>>, seen |-> <<>>]
  ELSE LET r == _stop(self)
       IN  [self |-> r.self, wdog |-> 0, cb |-> r.cb, seen |-> r.seen]

\* _cbe taking one edge, not two, for the start condition
_cbe_decodes_early(self, level, tick) ==
  IF level < 2
  THEN LET edge_len == tickDiff(self._last_edge_tick, tick)
           s1 == [self EXCEPT !._last_edge_tick = tick]
           s2 == IF s1._edges < 1
                 THEN [s1 EXCEPT !._prev = 1]
                 ELSE IF s1._edges % 2 = 1
                      THEN _decode(s1, s1._prev_edge_len, edge_len)
                      ELSE [s1 EXCEPT !._prev_edge_len = edge_len]
       IN  [self |-> [s2 EXCEPT !._edges = s2._edges + 1],
            wdog |-> WdogMs, cb |-> <<>>, seen |-> <<>>]
  ELSE LET r == _stop(self)
       IN  [self |-> r.self, wdog |-> 0, cb |-> r.cb, seen |-> r.seen]

\* rx._cbe: the object afterwards, the watchdog it leaves set, and the
\* frames handed to the callback
_cbe(self, level, tick) ==
  IF level < 2
  THEN LET edge_len == tickDiff(self._last_edge_tick, tick)
           s1 == [self EXCEPT !._last_edge_tick = tick]
           s2 == IF s1._edges < 2
                 THEN [s1 EXCEPT !._prev = 1]
                 ELSE IF s1._edges % 2 = 1
                      THEN _decode(s1, s1._prev_edge_len, edge_len)
                      ELSE [s1 EXCEPT !._prev_edge_len = edge_len]
       IN  [self |-> [s2 EXCEPT !._edges = s2._edges + 1],
            wdog |-> WdogMs, cb |-> <<>>, seen |-> <<>>]
  ELSE LET r == _stop(self)
       IN  [self |-> r.self, wdog |-> 0, cb |-> r.cb, seen |-> r.seen]

----------------------------------------------------------------------------
(* class tx, and the backend calls it makes.                               *)

\* dali.py: the transmitter's pin
TX == 22
\* tx.__init__: the defaults of gap and te
GAP_DEFAULT == 9000
TE_DEFAULT  == 417

\* pigpio.pulse(gpio_on, gpio_off, delay)
pulse(gpio_on, gpio_off, delay) ==
  [gpio_on |-> gpio_on, gpio_off |-> gpio_off, delay |-> delay]

\* 1 << n
Shl1(n) == 2 ^ n

\* a & b on non-negative integers
RECURSIVE BitAnd(_, _)
BitAnd(a, b) ==
  IF a = 0 \/ b = 0 THEN 0
  ELSE (a % 2) * (b % 2) + 2 * BitAnd(a \div 2, b \div 2)

\* the level a pulse puts on a pin: on if its bit is in gpio_on, off if it is
\* in gpio_off, as it was otherwise
PulseLevel(p, gpio, was) ==
  IF BitAnd(p.gpio_on, Shl1(gpio)) # 0 THEN 1
  ELSE IF BitAnd(p.gpio_off, Shl1(gpio)) # 0 THEN 0 ELSE was

\* _make_waves with the STOP template switching the pin off
_make_waves_stop_low(self, ws) ==
  LET on  == Shl1(self.gpio)
      w_start == << pulse(0, on, self.te), pulse(on, 0, self.te) >>
      w_stop  == << pulse(0, on, self.tstop) >>
      w_wid0  == << pulse(on, 0, self.te), pulse(0, on, self.te) >>
      w_wid1  == << pulse(0, on, self.te), pulse(on, 0, self.te) >>
  IN  [ self |-> [self EXCEPT !._start = Len(ws), !._stop = Len(ws) + 1,
                              !._wid0 = Len(ws) + 2, !._wid1 = Len(ws) + 3],
        waves |-> ws \o << w_start, w_stop, w_wid0, w_wid1 >> ]

\* _make_waves with the two bit templates exchanged
_make_waves_swapped(self, ws) ==
  LET on  == Shl1(self.gpio)
      w_start == << pulse(0, on, self.te), pulse(on, 0, self.te) >>
      w_stop  == << pulse(on, 0, self.tstop) >>
      w_wid0  == << pulse(0, on, self.te), pulse(on, 0, self.te) >>
      w_wid1  == << pulse(on, 0, self.te), pulse(0, on, self.te) >>
  IN  [ self |-> [self EXCEPT !._start = Len(ws), !._stop = Len(ws) + 1,
                              !._wid0 = Len(ws) + 2, !._wid1 = Len(ws) + 3],
        waves |-> ws \o << w_start, w_stop, w_wid0, w_wid1 >> ]

\* tx._make_waves: wave_add_generic and wave_create four times; the backend
\* numbers the waves it creates 0, 1, 2, ... .  Gives the object and the
\* backend's waves afterwards.
_make_waves(self, ws) ==
  LET on  == Shl1(self.gpio)
      w_start == << pulse(0, on, self.te), pulse(on, 0, self.te) >>
      w_stop  == << pulse(on, 0, self.tstop) >>
      w_wid0  == << pulse(on, 0, self.te), pulse(0, on, self.te) >>
      w_wid1  == << pulse(0, on, self.te), pulse(on, 0, self.te) >>
  IN  [ self |-> [self EXCEPT !._start = Len(ws), !._stop = Len(ws) + 1,
                              !._wid0 = Len(ws) + 2, !._wid1 = Len(ws) + 3],
        waves |-> ws \o << w_start, w_stop, w_wid0, w_wid1 >> ]

\* tx.__init__
TxNew(gpio, gap, te, ws) ==
  _make_waves([gpio |-> gpio, gap |-> gap, te |-> te, tstop |-> 4 * te,
               _start |-> Unset, _stop |-> Unset,
               _wid0 |-> Unset, _wid1 |-> Unset], ws)

\* SendBits starting from the least significant bit
RECURSIVE SendBits_lsb_first(_, _, _, _)
SendBits_lsb_first(self, code, bit, n) ==
  IF n = 0 THEN <<>>
  ELSE << IF code % 2 = 1 THEN self._wid1 ELSE self._wid0 >>
       \o SendBits_lsb_first(self, code \div 2, bit, n - 1)

\* the loop of tx.send over range(bits): the wave ids of the bits still to
\* be added, `bit` being the mask of the next one
RECURSIVE SendBits(_, _, _, _)
SendBits(self, code, bit, n) ==
  IF n = 0 THEN <<>>
  ELSE << IF BitAnd(code, bit) # 0 THEN self._wid1 ELSE self._wid0 >>
       \o SendBits(self, code, bit \div 2, n - 1)

\* tx.send up to the call of wave_chain: the chain it builds.  With bits = 0
\* the shift 1 << (bits - 1) raises ValueError and no chain is built.
SendRaises(bits) == bits - 1 < 0

SendChain(self, code, bits, repeats) ==
  << 255, 0, self._start >>
    \o SendBits(self, code, Shl1(bits - 1), bits)
    \o << self._stop, 255, 1, repeats, 0 >>

\* wave_chain: the wave ids between loop start (255 0) and loop repeat
\* (255 1 x y), and the count x + 256 y
ChainBody(chain) == SubSeq(chain, 3, Len(chain) - 4)
ChainCount(chain) == chain[Len(chain) - 1] + 256 * chain[Len(chain)]

RECURSIVE Flatten(_, _)
Flatten(ws, ids) ==
  IF ids = <<>> THEN <<>>
  ELSE ws[Head(ids) + 1] \o Flatten(ws, Tail(ids))

RECURSIVE Repeat(_, _)
Repeat(q, n) == IF n = 0 THEN <<>> ELSE q \o Repeat(q, n - 1)

\* the pulses wave_chain plays: the body, ChainCount times.  What the backend
\* plays for a count of 0 is not this repository's to say: nothing or once.
ChainPlays(chain) ==
  IF ChainCount(chain) = 0 THEN {0, 1} ELSE {ChainCount(chain)}

\* wave_tx_busy
wave_tx_busy(q) == q # <<>>

\* tx.cancel on connection conn: the connection afterwards and the backend
\* operations issued (the four wave_delete calls, then pi.stop())
tx_cancel(self, conn, fails) ==
  IF ~conn.connected /\ fails
  THEN [pi |-> conn, ops |-> <<"wave_delete">>, raised |-> TRUE]
  ELSE [pi |-> IF conn.connected
               THEN PiStopped([conn EXCEPT !.deleted =
                      @ \cup {self._start, self._stop, self._wid0, self._wid1}])
               ELSE conn,
        ops |-> <<"wave_delete", "wave_delete", "wave_delete", "wave_delete",
                  "stop">>,
        raised |-> FALSE]

\* the polling loop written `while not busy`
PollReturns_inverted(busy) == busy

\* the loop `while self.pi.wave_tx_busy(): time.sleep(0.1)`: whether a read
\* of the busy flag ends it
PollReturns(busy) == ~busy

----------------------------------------------------------------------------
(* Spec: the receiver under arbitrary edges.                               *)

\* no call of rx.cancel or tx.cancel made yet
NoTeardown == [rx_calls |-> 0, rx_ops |-> <<>>, cb_n |-> Unset,
               tx_calls |-> 0, stops |-> 0, late |-> {},
               late_op |-> "unknown"]

\* no callback invoked yet
NoCbAt == [_edges |-> Unset, _code |-> Unset]

NoTx == [gpio |-> TX, gap |-> 0, te |-> 0, tstop |-> 0, _start |-> Unset,
         _stop |-> Unset, _wid0 |-> Unset, _wid1 |-> Unset]
NoCall == [code |-> 0, bits |-> 0, repeats |-> 0, made |-> FALSE]

\* no transmitter is constructed
InitNoTx ==
  /\ tx = NoTx
  /\ waves = <<>>
  /\ tx_pc = "ready"
  /\ call = NoCall
  /\ chains = <<>>
  /\ polled = FALSE
  /\ txq = <<>>
  /\ clean = FALSE
  /\ bus = 1
  /\ idle = 0
  /\ now = 0
  /\ reported = Unset
  /\ cb_at = NoCbAt
  /\ pi = PiNew(RX, GLITCH_DEFAULT)
  /\ teardown = NoTeardown

NoProbe == [high_time |-> 0, low_time |-> 0, prev |-> Unset, code |-> 0,
            high_class |-> "", low_class |-> "", done |-> FALSE]

Init ==
  /\ \E callback \in BOOLEAN : rx = RxNew(RX, callback, GLITCH_DEFAULT, 0)
  /\ fresh = RxNew(rx.gpio, rx.cb, rx.glitch, 0)
  /\ wdog = 0
  /\ silences = 0
  /\ cb_n = 0
  /\ cb_frame = Unset
  /\ action = Unset
  /\ err = FALSE
  /\ probe = NoProbe
  /\ InitNoTx

\* The backend calls _cbe(gpio, l, tick): what becomes of the receiver, the
\* watchdog and the observations of the callback and of the decode step.
RxCallback(l, tick) ==
  LET r   == _cbe(rx, l, tick)
      dec == l < 2 /\ rx._edges >= 2 /\ rx._edges % 2 = 1
      len == tickDiff(rx._last_edge_tick, tick)
  IN  /\ rx' = r.self
      /\ wdog' = r.wdog
      /\ action' = IF dec THEN DecodeAction(rx._prev, rx._prev_edge_len, len)
                   ELSE Unset
      /\ err' = IF l < 2
                THEN ((rx._edges > 0 /\ err) \/
                      (dec /\ DecodeError(rx._prev, rx._prev_edge_len, len)))
                ELSE err
      /\ cb_n' = cb_n + Len(r.cb)
      /\ cb_frame' = IF r.cb = <<>> THEN cb_frame ELSE r.cb[Len(r.cb)]
      /\ reported' = l
      /\ cb_at' = IF r.seen = <<>> THEN cb_at
                  ELSE [_edges |-> r.seen[Len(r.seen)]._edges,
                        _code |-> r.seen[Len(r.seen)]._code]

\* The backend reports an edge, d microseconds after the previous one (after
\* the silences that have elapsed since): it calls _cbe(gpio, l, tick).
Edge(l, d) ==
  /\ rx._edges < MaxEdges
  /\ cb_n < MaxFrames
  /\ wdog > 0 => d < wdog * 1000
  /\ LET tick == (rx._last_edge_tick + silences * SilentUs + d) % TickWrap
     IN  /\ RxCallback(l, tick)
         /\ fresh' = _cbe(fresh, l, tick).self
  /\ silences' = 0
  /\ UNCHANGED <<probe, txvars, busvars, pivars>>

\* The bus stays silent for the watchdog's duration: a pending watchdog
\* expires and the backend calls _cbe(gpio, TIMEOUT, tick).
Silence ==
  /\ silences < MaxSilences
  /\ silences' = silences + 1
  /\ IF wdog > 0
     THEN /\ RxCallback(TIMEOUT, rx._last_edge_tick)
          /\ fresh' = [RxNew(rx.gpio, rx.cb, rx.glitch, 0) EXCEPT
                         !.frame = _cbe(fresh, TIMEOUT, 0).self.frame]
     ELSE /\ action' = Unset
          /\ UNCHANGED <<rx, wdog, cb_n, cb_frame, err, fresh, obsvars>>
  /\ UNCHANGED <<probe, txvars, busvars, pivars>>

Next ==
  \/ \E l \in {0, 1}, d \in Gaps : Edge(l, d)
  \/ Silence

Spec == Init /\ [][Next]_vars

----------------------------------------------------------------------------
(* SpecDecode: one call of rx._decode, on every pair of durations made of  *)
(* a duration in 0..MaxDuration and a gap of Gaps, from every register     *)
(* value up to MaxRegister and either previous half bit.                   *)

InitDecode ==
  /\ \E d \in 0..MaxDuration, g \in Gaps, high \in BOOLEAN,
        p \in {0, 1}, r \in 0..MaxRegister :
       /\ probe = [NoProbe EXCEPT !.high_time = IF high THEN d ELSE g,
                                  !.low_time = IF high THEN g ELSE d,
                                  !.prev = p, !.code = r]
       /\ rx = [RxNew(RX, TRUE, GLITCH_DEFAULT, 0) EXCEPT !._edges = 7, !._prev = p, !._code = r,
                                      !._prev_edge_len = probe.high_time]
  /\ fresh = rx
  /\ wdog = WdogMs
  /\ silences = 0
  /\ cb_n = 0
  /\ cb_frame = Unset
  /\ action = Unset
  /\ err = FALSE
  /\ InitNoTx

DecodeStep ==
  /\ ~probe.done
  /\ rx' = _decode(rx, probe.high_time, probe.low_time)
  /\ action' = DecodeAction(rx._prev, probe.high_time, probe.low_time)
  /\ err' = DecodeError(rx._prev, probe.high_time, probe.low_time)
  /\ probe' = [probe EXCEPT !.high_class = Classify(probe.high_time),
                            !.low_class = Classify(probe.low_time),
                            !.done = TRUE]
  /\ UNCHANGED <<wdog, silences, cb_n, cb_frame, fresh, txvars, busvars,
                 obsvars, pivars>>

NextDecode == DecodeStep

SpecDecode == InitDecode /\ [][NextDecode]_vars

----------------------------------------------------------------------------
(* SpecLoop: dali.py's set-up, a receiver on pin RX and a transmitter on   *)
(* pin TX of one bus; the caller makes one call of tx.send and the         *)
(* receiver hears what the backend plays.                                  *)

Min(a, b) == IF a < b THEN a ELSE b

InitLoop ==
  /\ rx = RxNew(RX, TRUE, GLITCH_DEFAULT, 0)
  /\ fresh = RxNew(RX, TRUE, GLITCH_DEFAULT, 0)
  /\ wdog = 0
  /\ silences = 0
  /\ cb_n = 0
  /\ cb_frame = Unset
  /\ action = Unset
  /\ err = FALSE
  /\ probe = NoProbe
  /\ LET t == TxNew(TX, GAP_DEFAULT, TE_DEFAULT, <<>>)
     IN  tx = t.self /\ waves = t.waves
  /\ tx_pc = "ready"
  /\ call = NoCall
  /\ chains = <<>>
  /\ polled = FALSE
  /\ txq = <<>>
  /\ clean = FALSE
  /\ bus \in {0, 1}
  /\ idle = SilentUs
  /\ now = 0
  /\ reported = Unset
  /\ cb_at = NoCbAt
  /\ pi = PiNew(RX, GLITCH_DEFAULT)
  /\ teardown = NoTeardown

\* tx.send(code, bits, repeats) up to its polling loop: the chain is built
\* and handed to wave_chain, or building it raises.
Send(code, bits, repeats) ==
  /\ tx_pc = "ready"
  /\ call' = [code |-> code, bits |-> bits, repeats |-> repeats, made |-> TRUE]
  /\ polled' = FALSE
  /\ clean' = (bus = 1 /\ rx._edges = 0 /\ wdog = 0)
  /\ IF SendRaises(bits)
     THEN /\ tx_pc' = "raised"
          /\ chains' = <<>>
          /\ UNCHANGED txq
     ELSE LET chain == SendChain(tx, code, bits, repeats)
          IN  /\ tx_pc' = "wait"
              /\ chains' = <<chain>>
              /\ \E n \in ChainPlays(chain) :
                   txq' = Repeat(Flatten(waves, ChainBody(chain)), n)
  /\ UNCHANGED <<rxvars, tx, waves, busvars, silences, probe, obsvars,
                 pivars>>

\* one turn of `while self.pi.wave_tx_busy(): time.sleep(0.1)`
Poll ==
  /\ tx_pc = "wait"
  /\ polled' = TRUE
  /\ tx_pc' = IF PollReturns(wave_tx_busy(txq)) THEN "returned" ELSE "wait"
  /\ UNCHANGED <<rxvars, tx, waves, call, chains, txq, clean,
                 busvars, silences, probe, obsvars, pivars>>

\* The backend plays the next pulse of the chain: the pin takes the pulse's
\* level, a change of level is an edge the receiver is called with, and the
\* pulse's delay passes.  A watchdog that has expired is reported first.
BusPulse ==
  /\ txq # <<>>
  /\ ~(wdog > 0 /\ idle >= wdog * 1000)
  /\ LET p == Head(txq)
         l == PulseLevel(p, tx.gpio, bus)
     IN  /\ bus' = l
         /\ txq' = Tail(txq)
         /\ now' = (now + p.delay) % TickWrap
         /\ IF l # bus
            THEN /\ RxCallback(l, now)
                 /\ idle' = Min(p.delay, SilentUs)
            ELSE /\ idle' = Min(idle + p.delay, SilentUs)
                 /\ UNCHANGED <<rx, wdog, cb_n, cb_frame, action, err,
                                obsvars>>
  /\ UNCHANGED <<fresh, tx, waves, tx_pc, call, chains, polled, clean,
                 silences, probe, pivars>>

\* The watchdog has expired: the backend calls _cbe(gpio, TIMEOUT, tick).
Timeout ==
  /\ wdog > 0
  /\ idle >= wdog * 1000
  /\ RxCallback(TIMEOUT, now)
  /\ UNCHANGED <<fresh, txvars, busvars, silences, probe, pivars>>

\* Nothing is played and the bus keeps its level until a watchdog can expire.
Quiet ==
  /\ txq = <<>>
  /\ idle < SilentUs
  /\ idle' = SilentUs
  /\ now' = (now + SilentUs - idle) % TickWrap
  /\ UNCHANGED <<rxvars, txvars, bus, silences, probe, obsvars, pivars>>

NextLoop ==
  \/ \E code \in 0..(2 ^ (MaxBits + 1) - 1), bits \in 0..MaxBits,
        repeats \in 0..MaxRepeats : Send(code, bits, repeats)
  \/ Poll
  \/ BusPulse
  \/ Timeout
  \/ Quiet

SpecLoop == InitLoop /\ [][NextLoop]_vars

\* the polling loop of tx.send runs on: a read of the busy flag that would
\* end it is eventually made
FairSpecLoop == SpecLoop /\ WF_vars(Poll)

----------------------------------------------------------------------------
(* SpecExit: dali.py's set-up at the end of the program.  The receiver     *)
(* hears the bus for as long as the backend delivers its events; the       *)
(* caller calls tx.cancel(), rx.cancel() and pi.stop() in any order.       *)

\* the backend delivers the events of the receiver's pin to _cbe
Dispatching == pi.connected /\ rx.gpio \in pi.callbacks

\* the operations of ops issued on a connection that is stopped
LateOps(conn, ops) ==
  IF conn.connected THEN {}
  ELSE {ops[i] : i \in 1..Len(ops)} \ {"stop"}

\* What the backend does with an operation on a stopped connection: it
\* raises or it returns, the same way every time; which of the two is seen
\* when the first such operation is issued.
LateFails ==
  IF pi.connected THEN {FALSE}
  ELSE IF teardown.late_op = "unknown" THEN BOOLEAN
  ELSE {teardown.late_op = "raises"}

LateOp(ops, fails) ==
  IF pi.connected \/ ops = <<>> THEN teardown.late_op
  ELSE IF fails THEN "raises" ELSE "returns"

\* the caller calls rx.cancel()
RxCancel ==
  /\ teardown.rx_calls < MaxCancels
  /\ \E fails \in LateFails :
       LET r == rx_cancel(rx, pi, wdog, fails)
       IN  /\ rx' = r.self
           /\ pi' = r.pi
           /\ wdog' = r.wdog
           /\ teardown' = [teardown EXCEPT
                 !.rx_calls = @ + 1,
                 !.rx_ops = r.ops,
                 !.cb_n = IF teardown.rx_calls = 0 THEN cb_n ELSE @,
                 !.late = @ \cup LateOps(pi, r.ops),
                 !.late_op = LateOp(r.ops, fails)]
  /\ UNCHANGED <<cb_n, cb_frame, action, err, fresh, txvars, busvars,
                 silences, probe, obsvars>>

\* the caller calls tx.cancel()
TxCancel ==
  /\ teardown.tx_calls < 1
  /\ \E fails \in LateFails :
       LET r == tx_cancel(tx, pi, fails)
       IN  /\ pi' = r.pi
           /\ teardown' = [teardown EXCEPT
                 !.tx_calls = @ + 1,
                 !.late = @ \cup LateOps(pi, r.ops),
                 !.late_op = LateOp(r.ops, fails)]
  /\ UNCHANGED <<rxvars, txvars, busvars, silences, probe, obsvars>>

\* the caller calls pi.stop()
PiStop ==
  /\ teardown.stops < 1
  /\ pi' = PiStopped(pi)
  /\ teardown' = [teardown EXCEPT !.stops = @ + 1]
  /\ UNCHANGED <<rxvars, txvars, busvars, silences, probe, obsvars>>

\* the backend reports an edge while it delivers events
ExitEdge ==
  /\ Dispatching
  /\ rx._edges < MaxExitEdges
  /\ \E l \in {0, 1}, d \in Gaps : Edge(l, d)

\* the bus stays silent while the backend delivers events
ExitSilence == Dispatching /\ Silence

NextExit ==
  \/ ExitEdge
  \/ ExitSilence
  \/ RxCancel
  \/ TxCancel
  \/ PiStop

SpecExit == InitLoop /\ [][NextExit]_vars

----------------------------------------------------------------------------
(* Claims about the decode step (SpecDecode).                              *)

\* the selector of the decode step that probe describes:
\* (previousHalfBit << 2) | (lowIsLong << 1) | highIsLong
ProbeSelector ==
  probe.prev * 4 + (IF IsLong(probe.low_time) THEN 2 ELSE 0)
                 + (IF IsLong(probe.high_time) THEN 1 ELSE 0)

\* C1: after a decode step from register r, selectors 0 and 5 leave
\* register 2r and previous half bit 0, selector 4 leaves 2r+1 and 1,
\* selectors 2 and 7 leave 4r+1 and 1.
C1_DecodeTable ==
  probe.done =>
    /\ ProbeSelector \in {0, 5} =>
         rx._code = 2 * probe.code /\ rx._prev = 0
    /\ ProbeSelector = 4 =>
         rx._code = 2 * probe.code + 1 /\ rx._prev = 1
    /\ ProbeSelector \in {2, 7} =>
         rx._code = 4 * probe.code + 1 /\ rx._prev = 1

\* selector 7 from register 3: two bits appended
C1_Witness ==
  /\ probe.done /\ ProbeSelector = 7 /\ probe.code = 3 /\ rx._code = 13
  /\ probe.high_time = 2 * TE /\ probe.low_time = 2 * TE /\ rx._prev = 1

\* the class C4 gives a duration, with Short from lo (350 or 351) up to 489
C4_Class(d, lo) ==
  IF lo <= d /\ d < 490 THEN "Short"
  ELSE IF 760 < d /\ d < 900 THEN "Long" ELSE "Invalid"

\* C4 as claimed: the decode step classifies d as Short when 350 <= d < 490,
\* Long when 760 < d < 900, Invalid otherwise.
C4_AsClaimed ==
  probe.done =>
    /\ probe.high_class = C4_Class(probe.high_time, 350)
    /\ probe.low_class = C4_Class(probe.low_time, 350)

\* C4 amended: the decode step classifies d as Short when 350 < d < 490,
\* Long when 760 < d < 900, Invalid otherwise (350, 490, 760 and 900 are
\* Invalid), and no duration passes both the Short and the Long comparison.
C4_Classification ==
  probe.done =>
    /\ probe.high_class = C4_Class(probe.high_time, 351)
    /\ probe.low_class = C4_Class(probe.low_time, 351)
    /\ \A d \in {probe.high_time, probe.low_time} :
         /\ ~(IsShort(d) /\ IsLong(d))
         /\ d \in {350, 490, 760, 900} => Classify(d) = "Invalid"

\* 350 handed to the decode step as the high duration
C4_Witness ==
  probe.done /\ probe.high_time = 350 /\ probe.high_class = "Invalid"
             /\ probe.low_class = "Long"

\* C17 as claimed: a decode step with selector 1, 3 or 6 leaves the shift
\* register and the previous half bit as they were.
C17_AsClaimed ==
  (probe.done /\ ProbeSelector \in {1, 3, 6}) =>
    (rx._code = probe.code /\ rx._prev = probe.prev)

----------------------------------------------------------------------------
(* Claims about the receiver (Spec).                                       *)

\* this step is the first silence after one or more edges
FirstSilence == silences = 0 /\ silences' = 1 /\ rx._edges >= 1

\* C3: with a callback registered, the first silence after one or more
\* edges invokes the callback exactly once, with the shift register's value;
\* edges and further silences invoke nothing.
C3_DeliveredOnce ==
  [][ rx.cb =>
        IF FirstSilence
        THEN cb_n' = cb_n + 1 /\ cb_frame' = rx._code
        ELSE (silences' = 0 \/ silences >= 1) => cb_n' = cb_n ]_vars

\* a frame of two bits delivered once, and a second silence after it
C3_Witness ==
  rx.cb /\ silences = 2 /\ cb_n = 1 /\ cb_frame = 3 /\ rx._edges = 0

\* C5: every frame the receiver delivers, whatever it received before, is
\* the frame a newly constructed receiver delivers for the same edges.
C5_CleanStart ==
  /\ rx.frame = fresh.frame
  /\ rx._edges = fresh._edges
  /\ rx._code = fresh._code

\* a second frame delivered, by the receiver and by the new one alike
C5_Witness ==
  /\ cb_n = 2 /\ cb_frame = 3 /\ rx.frame = 3 /\ fresh.frame = 3
  /\ rx._edges = 0

\* the durations of the decode step a step of Spec makes
StepHigh == rx._prev_edge_len
StepLow  == tickDiff(rx._last_edge_tick, rx'._last_edge_tick)

\* C9: a decode step with a timing error (an Invalid duration, or selector
\* 1, 3 or 6) counts its edge and does not clear the shift register; after
\* it the decode steps of the frame follow the same table, and the first
\* silence delivers the frame exactly once.
C9_ErrorContinues ==
  [][ /\ (action' # Unset /\ (\/ Classify(StepHigh) = "Invalid"
                              \/ Classify(StepLow) = "Invalid"
                              \/ action' \in {1, 3, 6})) =>
          /\ rx'._edges = rx._edges + 1
          /\ rx'._code >= rx._code
          /\ err'
      /\ (err /\ action' # Unset) =>
          /\ action' \in {0, 5} =>
               rx'._code = 2 * rx._code /\ rx'._prev = 0
          /\ action' = 4 =>
               rx'._code = 2 * rx._code + 1 /\ rx'._prev = 1
          /\ action' \in {2, 7} =>
               rx'._code = 4 * rx._code + 1 /\ rx'._prev = 1
      /\ (err /\ rx.cb /\ FirstSilence) =>
          cb_n' = cb_n + 1 /\ cb_frame' = rx._code ]_vars

\* a frame delivered with a bit decoded after a timing error
C9_Witness ==
  err /\ cb_n = 1 /\ cb_frame = 5 /\ rx._edges = 0 /\ silences = 1

\* this step is a call of _cbe for an edge
EdgeStep == silences' = 0 /\ rx'._edges = rx._edges + 1

\* this step is a silence period elapsing
SilenceStep == silences' = silences + 1

\* C11: a call of _cbe for an edge leaves the same receiver, the same
\* watchdog and the same (empty) list of frames delivered whether it reports
\* level 0 or level 1, so that the states and frames of a whole sequence of
\* events do not depend on the levels; a call with the timeout level is
\* not taken for an edge.
C11_LevelIgnored ==
  [][ /\ EdgeStep =>
           \A l \in {0, 1} :
             LET r == _cbe(rx, l, rx'._last_edge_tick)
             IN  r.self = rx' /\ r.wdog = wdog' /\ r.cb = <<>>
      /\ (SilenceStep /\ wdog > 0) =>
           (reported' = TIMEOUT /\ rx'._edges = 0
              /\ rx'._last_edge_tick = rx._last_edge_tick) ]_vars

\* a decode step made on an edge that was reported as falling (level 0)
C11_Witness ==
  reported = 0 /\ action = 4 /\ rx._edges = 4 /\ rx._code = 1

\* C12: the pin has no watchdog or the one of the configured duration; every
\* edge leaves the watchdog set to the configured duration, and a silence
\* (an expiry handled, or none pending) leaves none until the next edge.
C12_OneTimer ==
  /\ [](wdog \in {0, WdogMs})
  /\ [][ /\ EdgeStep => wdog' = WdogMs
         /\ SilenceStep => wdog' = 0
         /\ (wdog = 0 /\ wdog' # 0) => EdgeStep ]_vars

\* the watchdog set again by the second edge after an expiry
C12_Witness ==
  cb_n = 1 /\ rx._edges = 2 /\ wdog = WdogMs /\ silences = 0

\* C13: when the callback is invoked the edge counter and the shift register
\* are already 0, and the value handed over is the shift register's value
\* from before the reset.
C13_CaptureResetDeliver ==
  [][ cb_n' = cb_n + 1 =>
        /\ cb_at' = [_edges |-> 0, _code |-> 0]
        /\ cb_frame' = rx._code
        /\ rx'.frame = rx._code ]_vars

\* a frame of value 2 handed to the callback
C13_Witness ==
  /\ cb_n = 1 /\ cb_frame = 2 /\ cb_at = [_edges |-> 0, _code |-> 0]
  /\ rx.frame = 2 /\ reported = TIMEOUT

\* C14: the first two edges of a frame set the previous half bit to 1 and
\* the third stores its period; none of the three runs a decode step and the
\* shift register is 0 after them.  The fourth edge runs the first decode
\* step, on the period between edges 2 and 3 (high) and the period between
\* edges 3 and 4 (low).
C14_StartEdges ==
  /\ [](rx._edges <= 3 => rx._code = 0)
  /\ [](rx._edges \in 1..3 => rx._prev = 1)
  /\ [][ EdgeStep =>
           /\ rx._edges < 3 => (action' = Unset /\ rx'._code = 0)
           /\ rx._edges < 2 => rx'._prev = 1
           /\ rx._edges = 2 => rx'._prev_edge_len = StepLow
           /\ rx._edges = 3 =>
                action' = 4 + (IF IsLong(StepLow) THEN 2 ELSE 0)
                            + (IF IsLong(rx._prev_edge_len) THEN 1 ELSE 0) ]_vars

\* the fourth edge of a frame after two long periods: selector 7
C14_Witness ==
  /\ rx._edges = 4 /\ action = 7 /\ rx._code = 1 /\ rx._prev = 1
  /\ rx._prev_edge_len = 2 * TE

\* C15 as claimed: a silence with no edge observed since construction or
\* since the previous delivery delivers exactly one frame of value 0.
C15_AsClaimed ==
  [][ (rx.cb /\ SilenceStep /\ rx._edges = 0) =>
        (cb_n' = cb_n + 1 /\ cb_frame' = 0) ]_vars

\* C15 amended: with no edge observed since construction or since the
\* previous delivery no watchdog is pending and a silence delivers nothing;
\* a silence after one to three edges, which emit no bit, delivers exactly
\* one frame of value 0.
C15_NoEdgesNoFrame ==
  /\ [](rx._edges = 0 => wdog = 0)
  /\ [][ (rx.cb /\ SilenceStep) =>
           /\ rx._edges = 0 => (cb_n' = cb_n /\ cb_frame' = cb_frame)
           /\ rx._edges \in 1..3 => (cb_n' = cb_n + 1 /\ cb_frame' = 0) ]_vars

\* an empty frame delivered, and nothing by the silence after it
C15_Witness ==
  /\ rx.cb /\ silences = 2 /\ cb_n = 1 /\ cb_frame = 0
  /\ rx._edges = 0 /\ rx._code = 0 /\ wdog = 0

\* C16 as claimed: in a frame with a timing error the error flag holds
\* another value than in a frame without one.
C16_AsClaimed ==
  /\ ~err => rx._in_code = 0
  /\ err => rx._in_code # 0

----------------------------------------------------------------------------
(* Claims about the transmitter and the loop (SpecLoop).                   *)

\* the latest call of tx.send had a bit count and a repeat count of 1 or more
ValidCall == call.made /\ call.bits >= 1 /\ call.repeats >= 1

\* C2: send(v, n, 1) with v < 2^n, onto a bus that was high and a receiver
\* that was reset, makes the receiver deliver exactly one frame, after the
\* whole chain is played, and its value is v.
C2_RoundTrip ==
  (ValidCall /\ call.repeats = 1 /\ call.code < 2 ^ call.bits /\ clean) =>
    /\ cb_n <= 1
    /\ cb_n = 1 => (cb_frame = call.code /\ txq = <<>>)
    /\ (txq = <<>> /\ wdog = 0) => cb_n = 1

\* 0101 sent as four bits and delivered
C2_Witness ==
  /\ ValidCall /\ call.repeats = 1 /\ clean /\ txq = <<>> /\ wdog = 0
  /\ call.bits = 4 /\ call.code = 5 /\ cb_n = 1 /\ cb_frame = 5

\* the i-th bit template of C6's chain, i counted from 1
C6_Bit(i) ==
  IF (call.code \div (2 ^ (call.bits - i))) % 2 = 1 THEN tx._wid1
  ELSE tx._wid0

\* C6: a call of send with bitCount >= 1 and repeatCount >= 1 hands the
\* backend exactly one chain: loop start, START, the bit templates of bits
\* bitCount-1 down to 0 of code, STOP, loop repeat with count repeatCount.
C6_Chain ==
  ValidCall =>
    chains = << << 255, 0, tx._start >>
                  \o [i \in 1..call.bits |-> C6_Bit(i)]
                  \o << tx._stop, 255, 1, call.repeats, 0 >> >>

\* 10101 sent as three bits, twice: BIT1 BIT0 BIT1
C6_Witness ==
  /\ call.made /\ call.code = 21 /\ call.bits = 3 /\ call.repeats = 2
  /\ chains = << << 255, 0, 0, 3, 2, 3, 1, 255, 1, 2, 0 >> >>
  /\ tx_pc = "returned"

\* C7 as claimed: a call of send with bitCount = 0 or repeatCount = 0 raises
\* with no chain handed to wave_chain and no read of the busy flag.
C7_AsClaimed ==
  (call.made /\ (call.bits = 0 \/ call.repeats = 0)) =>
    (tx_pc = "raised" /\ chains = <<>> /\ ~polled)

\* C8: a valid call of send returns only from its polling loop, after the
\* chain is handed over and on a read of the busy flag that found the
\* backend idle; and once the backend is idle the call returns.
C8_SendBlocks ==
  /\ [][ (ValidCall' /\ tx_pc # "returned" /\ tx_pc' = "returned") =>
           /\ tx_pc = "wait"
           /\ Len(chains) = 1
           /\ ~wave_tx_busy(txq)
           /\ polled' ]_vars
  /\ (ValidCall /\ tx_pc = "wait" /\ ~wave_tx_busy(txq)) ~> tx_pc = "returned"

\* a call of four bits that has returned
C8_Witness ==
  ValidCall /\ tx_pc = "returned" /\ polled /\ call.bits = 4 /\ txq = <<>>

\* a template as the levels it puts on the transmitter's pin and for how long
WaveShape(id) ==
  [i \in 1..Len(waves[id + 1]) |->
     << PulseLevel(waves[id + 1][i], tx.gpio, Unset), waves[id + 1][i].delay >>]

\* C10 as claimed: START is low TE, high TE; STOP is low 4 TE; BIT0 is high
\* TE, low TE; BIT1 is low TE, high TE.
C10_AsClaimed ==
  /\ tx.te = 417
  /\ WaveShape(tx._start) = << <<0, tx.te>>, <<1, tx.te>> >>
  /\ WaveShape(tx._stop) = << <<0, 4 * tx.te>> >>
  /\ WaveShape(tx._wid0) = << <<1, tx.te>>, <<0, tx.te>> >>
  /\ WaveShape(tx._wid1) = << <<0, tx.te>>, <<1, tx.te>> >>

\* C10 amended: START is low TE, high TE; STOP is high 4 TE; BIT0 is high
\* TE, low TE; BIT1 is low TE, high TE (TE the te parameter, 417).
C10_Templates ==
  /\ tx.te = 417
  /\ WaveShape(tx._start) = << <<0, tx.te>>, <<1, tx.te>> >>
  /\ WaveShape(tx._stop) = << <<1, 4 * tx.te>> >>
  /\ WaveShape(tx._wid0) = << <<1, tx.te>>, <<0, tx.te>> >>
  /\ WaveShape(tx._wid1) = << <<0, tx.te>>, <<1, tx.te>> >>

\* the templates, after a chain ending in BIT0 and STOP has left the bus high
C10_Witness ==
  /\ Len(waves) = 4 /\ WaveShape(tx._stop) = << <<1, 1668>> >>
  /\ ValidCall /\ call.code = 0 /\ txq = <<>> /\ bus = 1 /\ idle = 1668

\* C19 as claimed: send(v, n, k) with k >= 2 and v < 2^n, onto a bus that was
\* high and a receiver that was reset, makes the receiver deliver k frames,
\* each of value v.
C19_AsClaimed ==
  (ValidCall /\ call.repeats >= 2 /\ call.code < 2 ^ call.bits /\ clean) =>
    /\ cb_n <= call.repeats
    /\ cb_n >= 1 => cb_frame = call.code
    /\ (txq = <<>> /\ wdog = 0) => cb_n = call.repeats

----------------------------------------------------------------------------
(* Claims about the end of the program (SpecExit).                         *)

\* C18 as claimed: no set_glitch_filter, set_watchdog, callback cancel or
\* wave_delete is issued on the connection after it is stopped.
C18_AsClaimed == teardown.late = {}

\* C20 as claimed: after the first call of rx.cancel the watchdog is
\* cancelled and _cbe no longer registered (or both gone with the
\* connection), the user callback is not invoked again, and a second call of
\* rx.cancel issues no backend operation.
C20_AsClaimed ==
  /\ teardown.rx_calls >= 1 =>
       /\ ~Dispatching
       /\ wdog = 0 \/ ~pi.connected
       /\ cb_n = teardown.cb_n
  /\ teardown.rx_calls >= 2 => teardown.rx_ops = <<>>

====
